---- MODULE Spec2Model ----
(***************************************************************************)
(* Model of examples/nlp/language_modeling/tuning/megatron_gpt_peft_eval.py *)
(* main(cfg): validation of the two restore paths, construction of the     *)
(* strategy / plugins / Trainer, restore of the adapter configuration and  *)
(* of the base model, freeze, dataset, inference configuration, predict    *)
(* and the rank-conditional output.  The script is replicated over         *)
(* world_size processes; process p has global rank p.                      *)
(***************************************************************************)
EXTENDS Integers, Sequences, FiniteSets, TLC

VARIABLES
    env,                    \* what the run is given: the composed config, the output file before the run,
                            \* which adapter artifacts and which runtime responses are possible
    world_size,             \* number of cooperating processes
    pc,                     \* pc[p]: position of process p in main
    cfg,                    \* cfg[p]: the configuration tree main received (patched in place at 116-117)
    strategy,               \* strategy[p]: None or the NLPDDPStrategy
    plugins,                \* plugins[p]: the plugin list
    trainer,                \* trainer[p]: None or the Trainer
    peft_model_cfg,         \* peft_model_cfg[p]: None or the adapter configuration
    save_restore_connector, \* save_restore_connector[p]: None or the PEFTSaveRestoreConnector
    model,                  \* model[p]: None or the restored model
    request_dl,             \* request_dl[p]: None or the DataLoader
    response,               \* response[p]: None or what trainer.predict returned
    pos,                    \* pos[p]: <<batch index, sentence index>> of the write loop
    outfile,                \* the file at cfg.inference.outfile_path: None or its characters
    handle,                 \* the processes that hold the file open for writing
    stdout,                 \* stdout[p]: what process p printed
    log                     \* log[p]: the calls process p has completed, in order

vars == <<env, world_size, pc, cfg, strategy, plugins, trainer, peft_model_cfg,
          save_restore_connector, model, request_dl, response, pos, outfile,
          handle, stdout, log>>

---------------------------------------------------------------------------
(* Bounds of the model *)

MaxPP == 2          \* model.pipeline_model_parallel_size ranges over 0..MaxPP
MaxWorld == 2       \* world_size ranges over 1..MaxWorld
MaxBatch == 2       \* a response holds at most MaxBatch batches
MaxSent == 2        \* a batch holds at most MaxSent sentences

---------------------------------------------------------------------------
(* Python values *)

\* None, for fields that hold a string
None == "None"

\* an optional object: <<>> is None, <<x>> is the object x
NoObj == <<>>
Obj(x) == <<x>>

\* dict.get(key, default) / DictConfig.get(key, default)
Get(d, key, default) == IF key \in DOMAIN d THEN d[key] ELSE default

NL == "\n"
SP == " "

\* index of the first separator in s, 0 when there is none
RECURSIVE FindFrom(_, _, _)
FindFrom(s, sep, k) ==
    IF k > Len(s) THEN 0
    ELSE IF s[k] = sep THEN k
    ELSE FindFrom(s, sep, k + 1)

\* str.split(sep): the pieces between separators; one more piece than separators
RECURSIVE Split(_, _)
Split(s, sep) ==
    LET k == FindFrom(s, sep, 1)
    IN  IF k = 0 THEN <<s>>
        ELSE <<SubSeq(s, 1, k - 1)>> \o Split(SubSeq(s, k + 1, Len(s)), sep)

\* sep.join(parts)
RECURSIVE Join(_, _)
Join(sep, parts) ==
    IF Len(parts) = 0 THEN <<>>
    ELSE IF Len(parts) = 1 THEN parts[1]
    ELSE parts[1] \o sep \o Join(sep, Tail(parts))

---------------------------------------------------------------------------
(* The configuration tree handed to main *)

\* the values of trainer.precision: the integers 16 and 32, the strings "bf16" and "bf16-mixed"
Precisions == {"16", "bf16", "32", "bf16-mixed"}

\* model.data.test_ds
TestDs(add_bos, tokens) ==
    [file_names |-> "test.jsonl", add_bos |-> add_bos,
     tokens_to_generate |-> tokens, global_batch_size |-> 4]

\* inference.*
Inference(add_BOS, tokens, outfile_path) ==
    [greedy |-> TRUE, add_BOS |-> add_BOS, tokens_to_generate |-> tokens,
     outfile_path |-> outfile_path]

\* cfg.model; megatron_amp_O2 is a key only when amp_O2 is not None
ModelSection(restore, peft_restore, amp_O2, pp, test_ds) ==
    LET base == [restore_from_path |-> restore,
                 peft |-> [restore_from_path |-> peft_restore],
                 gradient_as_bucket_view |-> TRUE,
                 pipeline_model_parallel_size |-> pp,
                 data |-> [test_ds |-> test_ds]]
    IN  IF amp_O2 = NoObj THEN base ELSE base @@ ("megatron_amp_O2" :> amp_O2[1])

\* cfg; cluster_type is a key only when cluster is not None
Config(m, precision, cluster, inference) ==
    LET base == [model |-> m, trainer |-> [precision |-> precision],
                 inference |-> inference]
    IN  IF cluster = NoObj THEN base ELSE base @@ ("cluster_type" :> cluster[1])

RestorePaths == {None, "base.nemo"}
PeftRestorePaths == {None, "peft.nemo"}
AmpO2s == {NoObj, Obj(TRUE), Obj(FALSE)}
Clusters == {NoObj, Obj("BCP"), Obj("bcp")}
TokenCounts == {32, 64}
OutfilePaths == {None, "preds.txt"}

\* every configuration of the bounded input space
AllConfigs ==
    { Config(ModelSection(r, pr, o2, pp, TestDs(b, t)), prec, cl, Inference(ib, it, out)) :
        r \in RestorePaths, pr \in PeftRestorePaths, o2 \in AmpO2s, pp \in 0..MaxPP,
        b \in BOOLEAN, t \in TokenCounts, prec \in Precisions, cl \in Clusters,
        ib \in BOOLEAN, it \in TokenCounts, out \in OutfilePaths }

\* configurations that differ in the restore paths and the output path only
PathConfigs ==
    { Config(ModelSection(r, pr, Obj(TRUE), 1, TestDs(TRUE, 32)), "bf16", NoObj,
             Inference(FALSE, 64, out)) :
        r \in RestorePaths, pr \in PeftRestorePaths, out \in OutfilePaths }

\* the configuration snapshots an adapter artifact can embed
SavedConfigs ==
    { [precision |-> prec, restore_from_path |-> rp,
       data |-> [test_ds |-> [file_names |-> "tuning_time.jsonl", add_bos |-> b,
                              tokens_to_generate |-> t, global_batch_size |-> 4]]] :
        prec \in {"16", "32"}, rp \in {"base.nemo", "/extracted/base"},
        b \in BOOLEAN, t \in TokenCounts }

\* an adapter tuned at another precision, on an extracted base model
SampleSaved ==
    [precision |-> "32", restore_from_path |-> "/extracted/base",
     data |-> [test_ds |-> [file_names |-> "tuning_time.jsonl", add_bos |-> FALSE,
                            tokens_to_generate |-> 64, global_batch_size |-> 4]]]

\* the configurations restore_from(return_config=True) can return
Adapters(which) == IF which = "sample" THEN {SampleSaved} ELSE SavedConfigs

\* os.path.isdir
IsDir(path) == path = "/extracted/base"

---------------------------------------------------------------------------
(* What the runtime generates *)

\* a sentence of one line, and one with leading, inner, doubled and trailing newlines
Sentences == { <<"a">>, <<NL, "b", NL, NL, "c", NL>> }

\* sequences over S of length at most n
RECURSIVE SeqsUpTo(_, _)
SeqsUpTo(S, n) ==
    IF n = 0 THEN { <<>> }
    ELSE LET shorter == SeqsUpTo(S, n - 1)
         IN  shorter \cup { Append(q, x) : q \in shorter, x \in S }

Batches == { [sentences |-> q] : q \in SeqsUpTo(Sentences, MaxSent) }
Responses == SeqsUpTo(Batches, MaxBatch)

\* two batches of two sentences, one sentence with an internal newline
SampleResponse ==
    << [sentences |-> << <<"a">>, <<"b", NL, "c">> >>],
       [sentences |-> << <<NL, NL>>, <<"a">> >>] >>

\* the responses trainer.predict can return
Generations(which) == IF which = "sample" THEN {SampleResponse} ELSE Responses

\* the file at the output path before the run: absent, or left by an earlier run
OldFile == <<"o", "l", "d", NL>>
FilesBefore == { NoObj, Obj(OldFile) }

---------------------------------------------------------------------------
(* Lines 72-102: validation, strategy, plugins *)

Procs == 0 .. (world_size - 1)

\* variant: the adapter path is not asserted
PathsPresentBaseOnly(c) == c.model.restore_from_path # None

\* the two assertions of lines 72-73
PathsPresent(c) ==
    /\ c.model.restore_from_path # None
    /\ c.model.peft.restore_from_path # None

\* line 74
MegatronAmpO2(c) == Get(c.model, "megatron_amp_O2", FALSE)

\* line 75
with_distributed_adam == FALSE

\* defaults of lines 87-89; 2 ** 32 is kept as its exponent
DefaultInitScaleLog2 == 32
DefaultGrowthInterval == 1000
DefaultHysteresis == 2

\* variant: the scale is turned off from degree 1 on
ScalerEnabledFromOne(c) ==
    IF c.model.pipeline_model_parallel_size >= 1 THEN FALSE ELSE TRUE

\* lines 90-92: the grad scale is turned off for a pipeline-parallel model
ScalerEnabled(c) ==
    IF c.model.pipeline_model_parallel_size > 1 THEN FALSE ELSE TRUE

\* lines 84-93
Scaler(c) ==
    IF c.trainer.precision = "16"
    THEN Obj([init_scale_log2 |-> Get(c.model, "native_amp_init_scale_log2", DefaultInitScaleLog2),
              growth_interval |-> Get(c.model, "native_amp_growth_interval", DefaultGrowthInterval),
              hysteresis |-> Get(c.model, "hysteresis", DefaultHysteresis),
              enabled |-> ScalerEnabled(c)])
    ELSE NoObj

\* line 83
WantsPrecisionPlugin(c) == c.trainer.precision \in {"16", "bf16"}

\* variant: megatron_amp_O2 is not consulted
PrecisionPluginKindIgnoringO2(c) == "PipelineMixedPrecisionPlugin"

\* lines 94-97
PrecisionPluginKind(c) ==
    IF MegatronAmpO2(c) /\ ~with_distributed_adam
    THEN "MegatronHalfPrecisionPlugin"
    ELSE "PipelineMixedPrecisionPlugin"

\* lines 83-97
PrecisionPlugins(c) ==
    IF WantsPrecisionPlugin(c)
    THEN << [kind |-> PrecisionPluginKind(c), precision |-> c.trainer.precision,
             device |-> "cuda", scaler |-> Scaler(c)] >>
    ELSE << >>

\* variant: any cluster type selects the elastic environment
IsBCPAnyCluster(c) == "cluster_type" \in DOMAIN c

\* line 99
IsBCP(c) == Get(c, "cluster_type", None) = "BCP"

\* lines 99-100
EnvironmentPlugins(c) ==
    IF IsBCP(c) THEN << [kind |-> "TorchElasticEnvironment"] >> ELSE << >>

\* lines 77-100: the list as it stands at line 102
PluginList(c) == PrecisionPlugins(c) \o EnvironmentPlugins(c)

\* lines 78-82
Strategy(c) ==
    [no_ddp_communication_hook |-> TRUE,
     gradient_as_bucket_view |-> c.model.gradient_as_bucket_view,
     find_unused_parameters |-> FALSE]

---------------------------------------------------------------------------
(* Lines 103-140: configuration patches *)

\* variant: the dataset section is not overridden
PatchPeftCfgPrecisionOnly(peft, c) == [peft EXCEPT !.precision = c.trainer.precision]

\* lines 108-111
PatchPeftCfg(peft, c) ==
    [peft EXCEPT !.precision = c.trainer.precision,
                 !.data.test_ds = c.model.data.test_ds]

\* variant: the generation flags are not copied
PatchInferenceSkipped(c, peft) == c

\* lines 113-117
PatchInference(c, peft) ==
    [c EXCEPT !.inference.add_BOS = peft.data.test_ds.add_bos,
              !.inference.tokens_to_generate = peft.data.test_ds.tokens_to_generate]

\* lines 119-121
Connector(c) ==
    [peft_model_nemo_path |-> c.model.peft.restore_from_path,
     peft_model_ckpt_path |-> None,
     model_extracted_dir |-> None]

\* lines 122-123
LocateBase(conn, peft, c) ==
    IF IsDir(peft.restore_from_path)
    THEN [conn EXCEPT !.model_extracted_dir = c.model.restore_from_path]
    ELSE conn

\* line 139: OmegaConf.to_container(cfg.inference, resolve=True), a plain dict of the same keys
ToContainer(inference) == [k \in DOMAIN inference |-> inference[k]]

---------------------------------------------------------------------------
(* Lines 142-153: output *)

\* model.global_rank of process p
GlobalRank(p) == p

\* variant: every rank takes the output branch
IsCoordinatorAny(p) == TRUE

\* line 142
IsCoordinator(p) == GlobalRank(p) = 0

\* variant: the output path is not tested
HasOutfileAlways(c) == TRUE

\* line 144
HasOutfile(c) == c.inference.outfile_path # None

\* variant: newlines are kept
CollapseNothing(sentence) == sentence

\* line 148
CollapseNewlines(sentence) == Join(<<SP>>, Split(sentence, NL))

\* line 149: what f.write(s + "\n") appends
Line(sentence) == CollapseNewlines(sentence) \o <<NL>>

\* line 145: open(path, "w") truncates or creates
OpenForWriting(before) == Obj(<<>>)

Banner == [text |-> "***************************", obj |-> <<>>]
Saved(path) == [text |-> "predictions saved to " \o path, obj |-> <<>>]
Printed(r) == [text |-> "response", obj |-> r]

---------------------------------------------------------------------------
(* The state when main is entered *)

InitWith(worlds, configs, files, adapter, runtime) ==
    /\ world_size \in worlds
    /\ env \in [cfg : configs, outfile : files, adapter : {adapter}, runtime : {runtime}]
    /\ pc = [p \in Procs |-> "start"]
    /\ cfg = [p \in Procs |-> env.cfg]
    /\ strategy = [p \in Procs |-> NoObj]
    /\ plugins = [p \in Procs |-> << >>]
    /\ trainer = [p \in Procs |-> NoObj]
    /\ peft_model_cfg = [p \in Procs |-> NoObj]
    /\ save_restore_connector = [p \in Procs |-> NoObj]
    /\ model = [p \in Procs |-> NoObj]
    /\ request_dl = [p \in Procs |-> NoObj]
    /\ response = [p \in Procs |-> NoObj]
    /\ pos = [p \in Procs |-> <<1, 1>>]
    /\ outfile = env.outfile
    /\ handle = {}
    /\ stdout = [p \in Procs |-> << >>]
    /\ log = [p \in Procs |-> << >>]

\* one process, every configuration
Init == InitWith({1}, AllConfigs, {NoObj}, "any", "sample")

\* replicated run
InitRanks == InitWith(1 .. MaxWorld, PathConfigs, FilesBefore, "sample", "sample")

\* one process, every response
InitWrite == InitWith({1}, PathConfigs, FilesBefore, "sample", "any")

---------------------------------------------------------------------------
(* The steps of main, for process p *)

Goto(p, label) == pc' = [pc EXCEPT ![p] = label]
Logged(p, calls) == log' = [log EXCEPT ![p] = @ \o calls]

\* lines 70-73
Validate(p) ==
    /\ pc[p] = "start"
    /\ IF PathsPresent(cfg[p]) THEN Goto(p, "setup") ELSE Goto(p, "failed")
    /\ UNCHANGED <<env, world_size, cfg, strategy, plugins, trainer, peft_model_cfg,
                   save_restore_connector, model, request_dl, response, pos, outfile,
                   handle, stdout, log>>

\* lines 74-102
Setup(p) ==
    /\ pc[p] = "setup"
    /\ strategy' = [strategy EXCEPT ![p] = Obj(Strategy(cfg[p]))]
    /\ plugins' = [plugins EXCEPT ![p] = PluginList(cfg[p])]
    /\ trainer' = [trainer EXCEPT ![p] =
                      Obj([plugins |-> PluginList(cfg[p]), strategy |-> Strategy(cfg[p]),
                           precision |-> cfg[p].trainer.precision])]
    /\ Logged(p, <<"NLPDDPStrategy", "Trainer">>)
    /\ Goto(p, "restore_peft_cfg")
    /\ UNCHANGED <<env, world_size, cfg, peft_model_cfg, save_restore_connector, model,
                   request_dl, response, pos, outfile, handle, stdout>>

\* lines 103-105: return_config=True yields the artifact's configuration, no model
RestorePeftCfg(p) ==
    /\ pc[p] = "restore_peft_cfg"
    /\ \E saved \in Adapters(env.adapter) :
          peft_model_cfg' = [peft_model_cfg EXCEPT ![p] = Obj(saved)]
    /\ Logged(p, <<"restore_peft_cfg">>)
    /\ Goto(p, "patch")
    /\ UNCHANGED <<env, world_size, cfg, strategy, plugins, trainer,
                   save_restore_connector, model, request_dl, response, pos, outfile,
                   handle, stdout>>

\* lines 108-121
PatchCfg(p) ==
    /\ pc[p] = "patch"
    /\ LET patched == PatchPeftCfg(peft_model_cfg[p][1], cfg[p])
       IN  /\ peft_model_cfg' = [peft_model_cfg EXCEPT ![p] = Obj(patched)]
           /\ cfg' = [cfg EXCEPT ![p] = PatchInference(cfg[p], patched)]
    /\ save_restore_connector' =
          [save_restore_connector EXCEPT ![p] = Obj(Connector(cfg[p]))]
    /\ Goto(p, "restore_base")
    /\ UNCHANGED <<env, world_size, strategy, plugins, trainer, model, request_dl,
                   response, pos, outfile, handle, stdout, log>>

\* lines 122-130
RestoreBase(p) ==
    /\ pc[p] = "restore_base"
    /\ LET conn == LocateBase(save_restore_connector[p][1], peft_model_cfg[p][1], cfg[p])
       IN  /\ save_restore_connector' = [save_restore_connector EXCEPT ![p] = Obj(conn)]
           /\ model' = [model EXCEPT ![p] =
                           Obj([restore_path |-> cfg[p].model.restore_from_path,
                                cfg |-> peft_model_cfg[p][1],
                                frozen |-> FALSE,
                                inference_config |-> NoObj,
                                global_rank |-> GlobalRank(p)])]
    /\ Logged(p, <<"restore_base">>)
    /\ Goto(p, "freeze")
    /\ UNCHANGED <<env, world_size, cfg, strategy, plugins, trainer, peft_model_cfg,
                   request_dl, response, pos, outfile, handle, stdout>>

\* variant: the model is not frozen
FreezeSkipped(p) ==
    /\ pc[p] = "freeze"
    /\ Goto(p, "build_dataset")
    /\ UNCHANGED <<env, world_size, cfg, strategy, plugins, trainer, peft_model_cfg,
                   save_restore_connector, model, request_dl, response, pos, outfile,
                   handle, stdout, log>>

\* line 132
Freeze(p) ==
    /\ pc[p] = "freeze"
    /\ model' = [model EXCEPT ![p] = Obj([@[1] EXCEPT !.frozen = TRUE])]
    /\ Logged(p, <<"freeze">>)
    /\ Goto(p, "build_dataset")
    /\ UNCHANGED <<env, world_size, cfg, strategy, plugins, trainer, peft_model_cfg,
                   save_restore_connector, request_dl, response, pos, outfile, handle,
                   stdout>>

\* lines 133-138
BuildDataset(p) ==
    /\ pc[p] = "build_dataset"
    /\ request_dl' = [request_dl EXCEPT ![p] =
                         Obj([dataset |-> peft_model_cfg[p][1].data.test_ds.file_names,
                              batch_size |-> peft_model_cfg[p][1].data.test_ds.global_batch_size])]
    /\ Logged(p, <<"build_dataset">>)
    /\ Goto(p, "set_inference_config")
    /\ UNCHANGED <<env, world_size, cfg, strategy, plugins, trainer, peft_model_cfg,
                   save_restore_connector, model, response, pos, outfile, handle, stdout>>

\* lines 139-140
SetInferenceConfig(p) ==
    /\ pc[p] = "set_inference_config"
    /\ model' = [model EXCEPT ![p] =
                    Obj([@[1] EXCEPT !.inference_config = Obj(ToContainer(cfg[p].inference))])]
    /\ Logged(p, <<"set_inference_config">>)
    /\ Goto(p, "predict")
    /\ UNCHANGED <<env, world_size, cfg, strategy, plugins, trainer, peft_model_cfg,
                   save_restore_connector, request_dl, response, pos, outfile, handle,
                   stdout>>

\* line 141
Predict(p) ==
    /\ pc[p] = "predict"
    /\ \E r \in Generations(env.runtime) :
          response' = [response EXCEPT ![p] = Obj(r)]
    /\ Logged(p, <<"predict">>)
    /\ Goto(p, "output")
    /\ UNCHANGED <<env, world_size, cfg, strategy, plugins, trainer, peft_model_cfg,
                   save_restore_connector, model, request_dl, pos, outfile, handle, stdout>>

\* lines 142-145 and 151-153: the branch taken after predict
Output(p) ==
    /\ pc[p] = "output"
    /\ IF IsCoordinator(p)
       THEN IF HasOutfile(cfg[p])
            THEN /\ outfile' = OpenForWriting(outfile)
                 /\ handle' = handle \cup {p}
                 /\ pos' = [pos EXCEPT ![p] = <<1, 1>>]
                 /\ stdout' = [stdout EXCEPT ![p] = @ \o <<Banner>>]
                 /\ Logged(p, <<"open">>)
                 /\ Goto(p, "writing")
            ELSE /\ stdout' = [stdout EXCEPT ![p] =
                                  @ \o <<Banner, Printed(response[p][1]), Banner>>]
                 /\ Logged(p, <<"print_response">>)
                 /\ Goto(p, "done")
                 /\ UNCHANGED <<outfile, handle, pos>>
       ELSE /\ stdout' = [stdout EXCEPT ![p] = @ \o <<Banner>>]
            /\ Goto(p, "done")
            /\ UNCHANGED <<outfile, handle, pos, log>>
    /\ UNCHANGED <<env, world_size, cfg, strategy, plugins, trainer, peft_model_cfg,
                   save_restore_connector, model, request_dl, response>>

\* lines 146-150 and 153: one step of the nested loops, or leaving the with block
WriteLoop(p) ==
    /\ pc[p] = "writing"
    /\ LET i == pos[p][1]
           j == pos[p][2]
           r == response[p][1]
       IN  IF i > Len(r)
           THEN /\ handle' = handle \ {p}
                /\ stdout' = [stdout EXCEPT ![p] =
                                 @ \o <<Saved(cfg[p].inference.outfile_path), Banner>>]
                /\ Goto(p, "done")
                /\ UNCHANGED <<outfile, pos, log>>
           ELSE IF j > Len(r[i].sentences)
           THEN /\ pos' = [pos EXCEPT ![p] = <<i + 1, 1>>]
                /\ UNCHANGED <<outfile, handle, stdout, pc, log>>
           ELSE /\ outfile' = Obj(outfile[1] \o Line(r[i].sentences[j]))
                /\ pos' = [pos EXCEPT ![p] = <<i, j + 1>>]
                /\ Logged(p, <<"write">>)
                /\ UNCHANGED <<handle, stdout, pc>>
    /\ UNCHANGED <<env, world_size, cfg, strategy, plugins, trainer, peft_model_cfg,
                   save_restore_connector, model, request_dl, response>>

\* the calls that can raise: restore (103, 125), dataset (133), predict (141),
\* open (145) and write (149); nothing is caught, the with block closes the file
CanRaise(p) ==
    \/ pc[p] \in {"restore_peft_cfg", "restore_base", "build_dataset", "predict", "writing"}
    \/ pc[p] = "output" /\ IsCoordinator(p) /\ HasOutfile(cfg[p])

Raise(p) ==
    /\ CanRaise(p)
    /\ handle' = handle \ {p}
    /\ Goto(p, "failed")
    /\ UNCHANGED <<env, world_size, cfg, strategy, plugins, trainer, peft_model_cfg,
                   save_restore_connector, model, request_dl, response, pos, outfile,
                   stdout, log>>

Next ==
    \/ \E p \in Procs : Validate(p)
    \/ \E p \in Procs : Setup(p)
    \/ \E p \in Procs : RestorePeftCfg(p)
    \/ \E p \in Procs : PatchCfg(p)
    \/ \E p \in Procs : RestoreBase(p)
    \/ \E p \in Procs : Freeze(p)
    \/ \E p \in Procs : BuildDataset(p)
    \/ \E p \in Procs : SetInferenceConfig(p)
    \/ \E p \in Procs : Predict(p)
    \/ \E p \in Procs : Output(p)
    \/ \E p \in Procs : WriteLoop(p)
    \/ \E p \in Procs : Raise(p)

Spec == Init /\ [][Next]_vars
SpecRanks == InitRanks /\ [][Next]_vars
SpecWrite == InitWrite /\ [][Next]_vars

---------------------------------------------------------------------------
(* Properties *)

\* x occurs in the sequence q
Occurs(x, q) == \E k \in 1 .. Len(q) : q[k] = x

\* the elements of q that are in S, in their order
RECURSIVE Restrict(_, _)
Restrict(q, S) ==
    IF q = << >> THEN << >>
    ELSE IF Head(q) \in S THEN <<Head(q)>> \o Restrict(Tail(q), S)
    ELSE Restrict(Tail(q), S)

IsPrefix(q, r) == Len(q) <= Len(r) /\ q = SubSeq(r, 1, Len(q))

\* the precision plugins of a plugin list
PrecisionKinds == {"MegatronHalfPrecisionPlugin", "PipelineMixedPrecisionPlugin"}
PrecisionOnes(list) == { k \in 1 .. Len(list) : list[k].kind \in PrecisionKinds }

\* C1: when model.restore_from_path or model.peft.restore_from_path is None the
\* process fails at the assertions: it is never anywhere but at the start or
\* failed, and no strategy, plugin, Trainer, adapter configuration, connector,
\* model or dataset exists and no call has been made.
C1_FailsBeforeAnyWork ==
    (env.cfg.model.restore_from_path = None \/ env.cfg.model.peft.restore_from_path = None)
    => \A p \in Procs :
          /\ pc[p] \in {"start", "failed"}
          /\ strategy[p] = NoObj /\ plugins[p] = << >> /\ trainer[p] = NoObj
          /\ peft_model_cfg[p] = NoObj /\ save_restore_connector[p] = NoObj
          /\ model[p] = NoObj /\ request_dl[p] = NoObj /\ response[p] = NoObj
          /\ log[p] = << >> /\ outfile = env.outfile

C1_Witness ==
    \E p \in Procs :
        /\ env.cfg.model.restore_from_path # None
        /\ env.cfg.model.peft.restore_from_path = None
        /\ pc[p] = "failed"

\* C2: once the adapter configuration is patched (the connector of line 119
\* exists), its precision is the trainer's and its data.test_ds is the model
\* section's, and the restored model holds a configuration with the same two
\* values, in every later state.
C2_OverridesPropagate ==
    \A p \in Procs :
        save_restore_connector[p] # NoObj =>
            /\ peft_model_cfg[p][1].precision = cfg[p].trainer.precision
            /\ peft_model_cfg[p][1].data.test_ds = cfg[p].model.data.test_ds
            /\ cfg[p].trainer.precision = env.cfg.trainer.precision
            /\ cfg[p].model.data.test_ds = env.cfg.model.data.test_ds
            /\ model[p] # NoObj =>
                  /\ model[p][1].cfg.precision = env.cfg.trainer.precision
                  /\ model[p][1].cfg.data.test_ds = env.cfg.model.data.test_ds

\* the adapter was saved with precision 16 or 32 and another dataset section
C2_Witness ==
    \E p \in Procs :
        /\ pc[p] = "done"
        /\ env.cfg.trainer.precision = "bf16"
        /\ model[p][1].cfg.precision = "bf16"
        /\ model[p][1].cfg.data.test_ds.file_names = "test.jsonl"

\* C5 as stated: at precision 16 the scaler is enabled exactly when the
\* pipeline-parallel degree is 1.
C5_EnabledIffDegreeOne ==
    \A p \in Procs :
        (trainer[p] # NoObj /\ env.cfg.trainer.precision = "16") =>
            \A k \in PrecisionOnes(trainer[p][1].plugins) :
                /\ trainer[p][1].plugins[k].scaler # NoObj
                /\ trainer[p][1].plugins[k].scaler[1].enabled
                      = (env.cfg.model.pipeline_model_parallel_size = 1)

\* C5 amended: at precision 16 the scaler is disabled exactly when the
\* pipeline-parallel degree is greater than 1, and enabled for every degree
\* of at most 1.
C5_DisabledIffDegreeAboveOne ==
    \A p \in Procs :
        (trainer[p] # NoObj /\ env.cfg.trainer.precision = "16") =>
            /\ PrecisionOnes(trainer[p][1].plugins) # {}
            /\ \A k \in PrecisionOnes(trainer[p][1].plugins) :
                  /\ trainer[p][1].plugins[k].scaler # NoObj
                  /\ trainer[p][1].plugins[k].scaler[1].enabled
                        = (env.cfg.model.pipeline_model_parallel_size <= 1)

C5_Witness ==
    \E p \in Procs :
        /\ trainer[p] # NoObj
        /\ env.cfg.trainer.precision = "16"
        /\ env.cfg.model.pipeline_model_parallel_size = 0
        /\ trainer[p][1].plugins[1].scaler[1].enabled

\* C6: the Trainer's plugin list holds the elastic-environment plugin exactly
\* when cluster_type is a key of the configuration with the value "BCP",
\* whatever the precision.
C6_ElasticIffBCP ==
    \A p \in Procs :
        trainer[p] # NoObj =>
            ( (\E k \in 1 .. Len(trainer[p][1].plugins) :
                   trainer[p][1].plugins[k].kind = "TorchElasticEnvironment")
              <=> ("cluster_type" \in DOMAIN env.cfg /\ env.cfg.cluster_type = "BCP") )

C6_Witness ==
    \E p \in Procs :
        /\ trainer[p] # NoObj
        /\ "cluster_type" \in DOMAIN env.cfg
        /\ env.cfg.cluster_type = "BCP"
        /\ env.cfg.trainer.precision = "32"
        /\ trainer[p][1].plugins = << [kind |-> "TorchElasticEnvironment"] >>

\* C8: the Trainer's plugin list holds one precision plugin at precision 16 or
\* "bf16" and none otherwise; it is the half-precision plugin exactly when
\* megatron_amp_O2 is set and true; it has a scaler exactly at precision 16.
C8_PrecisionPlugin ==
    \A p \in Procs :
        trainer[p] # NoObj =>
            LET list == trainer[p][1].plugins
                ones == PrecisionOnes(list)
                prec == env.cfg.trainer.precision
                o2   == "megatron_amp_O2" \in DOMAIN env.cfg.model
                           /\ env.cfg.model.megatron_amp_O2
            IN  IF prec \in {"16", "bf16"}
                THEN /\ Cardinality(ones) = 1
                     /\ \A k \in ones :
                           /\ list[k].kind = "MegatronHalfPrecisionPlugin" <=> o2
                           /\ list[k].kind = "PipelineMixedPrecisionPlugin" <=> ~o2
                           /\ list[k].precision = prec
                           /\ list[k].scaler # NoObj <=> prec = "16"
                ELSE ones = {}

C8_Witness ==
    \E p \in Procs :
        /\ trainer[p] # NoObj
        /\ env.cfg.trainer.precision = "bf16"
        /\ Len(trainer[p][1].plugins) = 1
        /\ trainer[p][1].plugins[1].kind = "MegatronHalfPrecisionPlugin"
        /\ trainer[p][1].plugins[1].scaler = NoObj

\* C9: the inference configuration the model holds has add_BOS and
\* tokens_to_generate equal to model.data.test_ds.add_bos and
\* model.data.test_ds.tokens_to_generate, and every other key as it was when
\* main was entered.
C9_InferenceConfigPushed ==
    \A p \in Procs :
        (model[p] # NoObj /\ model[p][1].inference_config # NoObj) =>
            LET pushed == model[p][1].inference_config[1]
            IN  /\ DOMAIN pushed = DOMAIN env.cfg.inference
                /\ pushed.add_BOS = env.cfg.model.data.test_ds.add_bos
                /\ pushed.tokens_to_generate = env.cfg.model.data.test_ds.tokens_to_generate
                /\ \A k \in DOMAIN pushed \ {"add_BOS", "tokens_to_generate"} :
                      pushed[k] = env.cfg.inference[k]

C9_Witness ==
    \E p \in Procs :
        /\ model[p] # NoObj
        /\ model[p][1].inference_config # NoObj
        /\ env.cfg.inference.add_BOS # env.cfg.model.data.test_ds.add_bos
        /\ env.cfg.inference.tokens_to_generate # env.cfg.model.data.test_ds.tokens_to_generate
        /\ env.cfg.inference.outfile_path # None

\* the stages of a run, in order
StageOrder ==
    <<"restore_peft_cfg", "restore_base", "freeze", "set_inference_config", "predict", "open">>
StageSet == { StageOrder[k] : k \in 1 .. Len(StageOrder) }

\* C10: the stages happen at most once each and in the order adapter
\* configuration, base model, freeze, inference configuration, predict,
\* output file; predict is entered only on a frozen model that holds the
\* inference configuration; the file is opened and written only after predict
\* returned; a process that failed before predict returned has not touched
\* the file.
C10_StagesInOrder ==
    \A p \in Procs :
        /\ IsPrefix(Restrict(log[p], StageSet), StageOrder)
        /\ (pc[p] = "predict" \/ Occurs("predict", log[p])) =>
              /\ model[p] # NoObj
              /\ model[p][1].frozen
              /\ model[p][1].inference_config # NoObj
        /\ (Occurs("open", log[p]) \/ Occurs("write", log[p]) \/ p \in handle) =>
              /\ Occurs("predict", log[p])
              /\ response[p] # NoObj
        /\ (pc[p] = "failed" /\ ~Occurs("predict", log[p])) =>
              /\ ~Occurs("open", log[p])
              /\ ~Occurs("write", log[p])
              /\ world_size = 1 => outfile = env.outfile

C10_Witness ==
    \E p \in Procs :
        /\ pc[p] = "done"
        /\ Restrict(log[p], StageSet) = StageOrder
        /\ Len(Restrict(log[p], {"write"})) = 4

\* the sentences of a response, batch after batch, each batch in its order
RECURSIVE AllSentences(_)
AllSentences(r) ==
    IF r = << >> THEN << >> ELSE Head(r).sentences \o AllSentences(Tail(r))

\* a sentence with each newline character replaced by one space
Spaced(sentence) ==
    [k \in 1 .. Len(sentence) |-> IF sentence[k] = NL THEN SP ELSE sentence[k]]

\* number of newline characters of a text
RECURSIVE Newlines(_)
Newlines(text) ==
    IF text = << >> THEN 0
    ELSE (IF Head(text) = NL THEN 1 ELSE 0) + Newlines(Tail(text))

\* the text of the given lines, each ended by a newline
RECURSIVE Text(_)
Text(lines) ==
    IF lines = << >> THEN << >> ELSE Head(lines) \o <<NL>> \o Text(Tail(lines))

\* C3: when inference.outfile_path is set and the coordinating process is
\* done, the file holds one line per sentence of the response, so as many
\* newline-ended lines as sentences, in batch-then-item order, each line the
\* sentence with every newline replaced by one space; what the file held
\* before the run is gone.
C3_OneLinePerSentence ==
    \A p \in Procs :
        (pc[p] = "done" /\ p = 0 /\ env.cfg.inference.outfile_path # None) =>
            LET all == AllSentences(response[p][1])
            IN  /\ outfile # NoObj
                /\ Newlines(outfile[1]) = Len(all)
                /\ outfile[1] = Text([k \in 1 .. Len(all) |-> Spaced(all[k])])

\* two batches of two sentences, newlines in some of them, over an older file
C3_Witness ==
    \E p \in Procs :
        /\ pc[p] = "done"
        /\ env.cfg.inference.outfile_path # None
        /\ env.outfile = Obj(OldFile)
        /\ Len(response[p][1]) = 2
        /\ response[p][1][1].sentences = << <<"a">>, <<NL, "b", NL, NL, "c", NL>> >>
        /\ response[p][1][2].sentences = << <<NL, "b", NL, NL, "c", NL>>, <<"a">> >>
        /\ Newlines(outfile[1]) = 4

\* C4: when inference.outfile_path is None no process opens the file, the file
\* stays as it was before the run (absent if it was absent), and the
\* coordinating process, once done, has printed the response predict returned.
C4_NoFileAndResponsePrinted ==
    env.cfg.inference.outfile_path = None =>
        /\ outfile = env.outfile
        /\ handle = {}
        /\ \A p \in Procs : ~Occurs("open", log[p]) /\ ~Occurs("write", log[p])
        /\ pc[0] = "done" =>
              /\ response[0] # NoObj
              /\ stdout[0] = <<Banner, Printed(response[0][1]), Banner>>

C4_Witness ==
    /\ env.cfg.inference.outfile_path = None
    /\ env.outfile = NoObj
    /\ world_size = 2
    /\ \A p \in Procs : pc[p] = "done"
    /\ outfile = NoObj
    /\ Occurs(Printed(SampleResponse), stdout[0])

\* C7: under every interleaving a process of non-zero rank never opens or
\* writes the file and never prints the response, though it runs predict; at
\* most one process holds the file open, and only the process of rank 0 ever
\* does.
C7_OnlyRankZeroWrites ==
    /\ Cardinality(handle) <= 1
    /\ handle \subseteq {0}
    /\ \A p \in Procs :
          p # 0 =>
              /\ ~Occurs("open", log[p])
              /\ ~Occurs("write", log[p])
              /\ ~Occurs("print_response", log[p])
              /\ \A k \in 1 .. Len(stdout[p]) : stdout[p][k] = Banner
              /\ pc[p] = "done" => Occurs("predict", log[p]) /\ response[p] # NoObj

C7_Witness ==
    /\ world_size = 2
    /\ pc[0] = "writing"
    /\ 0 \in handle
    /\ pc[1] = "done"
    /\ Occurs("predict", log[1])
    /\ Occurs("write", log[0])

====
